---- MODULE Spec2Model ----
(***************************************************************************)
(* enexdump: the dump callback of src/enexdump.js, run once per note by   *)
(* the archive parser.  Strings are sequences of one-character strings,    *)
(* buffers are sequences of bytes, the output directory is a pair of maps  *)
(* from path to file content.                                              *)
(***************************************************************************)
EXTENDS Integers, Sequences, FiniteSets, TLC

VARIABLES
  sha256Reads,  \* what crypto.SHA256 digests of a Buffer: "bytes" or "nodata"
  pc,           \* "idle" between notes, "attachments" inside dump, "aborted" after a throw
  note,         \* title, dates and body of the note being dumped
  attachments,  \* the attachments of the note the loop has taken so far
  oldFile,      \* existsSync and readFileSync of the current iteration
  tags,         \* note.metadata.tags as formatTags received them
  dirs,         \* directories created
  files,        \* attachments directory: path -> content
  noteFiles,    \* notes directory: path -> content
  error,        \* the Error thrown, if any
  delivered,    \* notes the parser has delivered
  pinned,       \* history: paths of the non-sentinel attachments of the notes written
  filename,     \* input of the normalizer
  normalized    \* its successive results

vars == <<sha256Reads, pc, note, attachments, oldFile, tags, dirs, files,
          noteFiles, error, delivered, pinned, filename, normalized>>

runVars == <<sha256Reads, pc, note, attachments, oldFile, tags, dirs, files,
             noteFiles, error, delivered, pinned>>

normVars == <<filename, normalized>>

----------------------------------------------------------------------------
(* Bounds of the model.                                                    *)

MaxNotes == 2

MaxAttachments == 2

MaxNameLen == 3

----------------------------------------------------------------------------
(* Strings of the program.                                                 *)

RECURSIVE Join(_, _)
\* Array.prototype.join
Join(strs, sep) ==
  IF Len(strs) = 0 THEN <<>>
  ELSE IF Len(strs) = 1 THEN strs[1]
  ELSE strs[1] \o sep \o Join(Tail(strs), sep)

\* String.prototype.includes, for a one-character needle
Includes(str, ch) == \E k \in 1..Len(str) : str[k] = ch

\* String.prototype.indexOf, for a one-character needle; 0 when absent
IndexOf(str, ch) ==
  IF Includes(str, ch)
  THEN CHOOSE k \in 1..Len(str) : str[k] = ch /\ \A j \in 1..(k - 1) : str[j] # ch
  ELSE 0

\* String.prototype.replace with a string pattern: the first match only
Replace(str, ch, rep) ==
  LET k == IndexOf(str, ch)
  IN  IF k = 0 THEN str
      ELSE SubSeq(str, 1, k - 1) \o rep \o SubSeq(str, k + 1, Len(str))

normalizeFilename(name) ==
  Replace(Replace(Replace(Replace(Replace(name,
    "[", <<"%", "5", "b">>),
    "]", <<"%", "5", "d">>),
    "(", <<"%", "2", "8">>),
    ")", <<"%", "2", "9">>),
    ",", <<"%", "2", "c">>)

\* A thrown Error and the absence of one
Thrown(msg) == [thrown |-> TRUE, message |-> msg]

NoError == [thrown |-> FALSE, message |-> <<>>]

InvalidTagPrefix ==
  <<"I", "n", "v", "a", "l", "i", "d", " ", "t", "a", "g", " ", "f", "o", "r", " ", "[", "\"">>

\* formatTags without its test: a tag with a comma is joined like any other
formatTagsUnchecked(tagList) ==
  [thrown |-> FALSE, message |-> <<"[">> \o Join(tagList, <<",", " ">>) \o <<"]">>]

\* formatTags: the tags line's value, or the Error it throws
formatTags(tagList) ==
  IF \E k \in 1..Len(tagList) : Includes(tagList[k], ",")
  THEN Thrown(InvalidTagPrefix \o Join(tagList, <<"\"", ",", " ", "\"">>) \o <<"\"", "]">>)
  ELSE [thrown |-> FALSE, message |-> <<"[">> \o Join(tagList, <<",", " ">>) \o <<"]">>]

\* Date.prototype.toISOString, on the timestamps (ms since the epoch) of the model
toISOString(ms) ==
  CASE ms = 0 ->
         <<"1", "9", "7", "0", "-", "0", "1", "-", "0", "1", "T",
           "0", "0", ":", "0", "0", ":", "0", "0", ".", "0", "0", "0", "Z">>
    [] ms = 86400000 ->
         <<"1", "9", "7", "0", "-", "0", "1", "-", "0", "2", "T",
           "0", "0", ":", "0", "0", ":", "0", "0", ".", "0", "0", "0", "Z">>

\* path.join of a directory and a base name without separators
pathJoin(dir, base) == dir \o <<"/">> \o base

outDir == <<"o", "u", "t">>

noteDir == pathJoin(outDir, <<"n", "o", "t", "e", "s">>)

attachDir == pathJoin(outDir, <<"a", "t", "t", "a", "c", "h", "m", "e", "n", "t", "s">>)

----------------------------------------------------------------------------
(* Buffers and hashes.                                                     *)

invalidBuffer == <<0, 1, 2, 3, 4, 5, 6, 7, 8, 9>>

\* Buffer.prototype.equals: same length and the same byte at every offset
BufferEquals(a, b) ==
  /\ Len(a) = Len(b)
  /\ \A k \in 1..Len(a) : a[k] = b[k]

\* crypto.SHA256(buffer).toString().  crypto-js hashes strings and its own
\* WordArrays; the program hands it a Node Buffer.  Either the bytes of the
\* buffer are digested (a collision-free digest on the buffers of the model),
\* or the buffer is appended as a word array without words and the digest is
\* that of no data, the same for every buffer.
SHA256(content) ==
  IF sha256Reads = "bytes" THEN <<"sha256", content>> ELSE <<"sha256", "nodata">>

\* newHash != oldHash, without toString(): two distinct objects always differ
HashesDifferAsObjects(newHash, oldHash) == TRUE

\* newHash.toString() != oldHash.toString()
HashesDiffer(newHash, oldHash) == newHash # oldHash

----------------------------------------------------------------------------
(* Inputs: the notes the parser may deliver.  A note is read as the        *)
(* callback reads it: title, dates and body on entry, one attachment per   *)
(* iteration of the loop, the tags when the header is built.               *)

Titles == {<<"T", "e", "s", "t">>}

Dates == {0}

Bodies == {<<"h", "e", "l", "l", "o">>}

TagLists ==
  { <<>>,
    << <<"x">>, <<"y">> >>,
    << <<"x", ",", "y">>, <<"z">> >> }

AttachmentNames == {<<"a", ",", "b">>, <<"a", "%", "2", "c", "b">>, <<"[", "[">>}

Contents == {invalidBuffer, <<>>, <<0, 1, 2, 3, 4, 5, 6, 7, 8, 0>>}

SeqsUpTo(S, n) == UNION {[1..k -> S] : k \in 0..n}

Attachments == [name : AttachmentNames, content : Contents]

NoteHeads == [title : Titles, created : Dates, modified : Dates, body : Bodies]

NoNote == [title |-> <<>>, created |-> 0, modified |-> 0, body |-> <<>>]

NoFile == [exists |-> FALSE, content |-> <<>>]

Alphabet == {"[", "]", "(", ")", ",", "%", "a"}

----------------------------------------------------------------------------
(* The run: dumper.dump calls the dump callback once per note.             *)

Init ==
  /\ sha256Reads \in {"bytes", "nodata"}
  /\ pc = "idle"
  /\ note = NoNote
  /\ attachments = <<>>
  /\ oldFile = NoFile
  /\ tags = <<>>
  /\ dirs = {}
  /\ files = <<>>
  /\ noteFiles = <<>>
  /\ error = NoError
  /\ delivered = 0
  /\ pinned = {}
  /\ filename = <<>>
  /\ normalized = <<>>

\* path.join(attachDir, normalizeFilename(attachment.metadata.name))
attachmentPath(att) == pathJoin(attachDir, normalizeFilename(att.name))

\* The parser calls dump(note); the callback creates both directories.
Deliver ==
  /\ pc = "idle"
  /\ delivered < MaxNotes
  /\ \E n \in NoteHeads : note' = n
  /\ delivered' = delivered + 1
  /\ dirs' = dirs \cup {noteDir, attachDir}
  /\ attachments' = <<>>
  /\ oldFile' = NoFile
  /\ tags' = <<>>
  /\ pc' = "attachments"
  /\ UNCHANGED <<sha256Reads, files, noteFiles, error, pinned, normVars>>

\* The sentinel told by its length alone
IsInvalidByLength(content) == Len(content) = Len(invalidBuffer)

\* attachment.content.equals(invalidBuffer)
IsInvalid(content) == BufferEquals(content, invalidBuffer)

\* The loop takes the next attachment of the note.
NextAttachment(att) ==
  /\ pc = "attachments"
  /\ Len(attachments) < MaxAttachments
  /\ attachments' = Append(attachments, att)

\* The loop variable: the attachment of the latest iteration
attachment == attachments[Len(attachments)]

\* One iteration of the attachment loop, the content being the sentinel.
Skip ==
  \E att \in Attachments :
    /\ NextAttachment(att)
    /\ IsInvalid(att.content)
    /\ oldFile' = NoFile
    /\ UNCHANGED <<sha256Reads, pc, note, tags, dirs, files, noteFiles, error,
                   delivered, pinned, normVars>>

\* fs.existsSync(path)
existsSync(path) == path \in DOMAIN files

\* fs.readFileSync(path), behind the existsSync test
readFileSync(path) ==
  IF existsSync(path) THEN [exists |-> TRUE, content |-> files[path]] ELSE NoFile

\* The file exists and its hash is not the hash of the new content.
Conflicts(path, content) ==
  /\ existsSync(path)
  /\ HashesDiffer(SHA256(content), SHA256(files[path]))

AlreadyExistsError(path) ==
  Thrown(<<"A", "t", "t", "a", "c", "h", "m", "e", "n", "t", " ", "a", "t", " ",
           "p", "a", "t", "h", " ", "\"">>
         \o path \o
         <<"\"", " ", "a", "l", "r", "e", "a", "d", "y", " ", "e", "x", "i", "s", "t", "s", ".">>)

\* The conflict reported while the loop goes on
ConflictReported ==
  \E att \in Attachments :
    /\ NextAttachment(att)
    /\ ~IsInvalid(att.content)
    /\ Conflicts(attachmentPath(att), att.content)
    /\ oldFile' = readFileSync(attachmentPath(att))
    /\ error' = AlreadyExistsError(attachmentPath(att))
    /\ UNCHANGED <<sha256Reads, pc, note, tags, dirs, files, noteFiles, delivered, pinned, normVars>>

\* One iteration of the attachment loop that throws: the run is over.
Conflict ==
  \E att \in Attachments :
    /\ NextAttachment(att)
    /\ ~IsInvalid(att.content)
    /\ Conflicts(attachmentPath(att), att.content)
    /\ oldFile' = readFileSync(attachmentPath(att))
    /\ error' = AlreadyExistsError(attachmentPath(att))
    /\ pc' = "aborted"
    /\ UNCHANGED <<sha256Reads, note, tags, dirs, files, noteFiles, delivered, pinned, normVars>>

\* fs.writeFileSync on a directory held as a map from path to content
writeFileSync(fs, path, content) ==
  [p \in DOMAIN fs \cup {path} |-> IF p = path THEN content ELSE fs[p]]

\* One iteration of the attachment loop that writes the file.
Write ==
  \E att \in Attachments :
    /\ NextAttachment(att)
    /\ ~IsInvalid(att.content)
    /\ ~Conflicts(attachmentPath(att), att.content)
    /\ oldFile' = readFileSync(attachmentPath(att))
    /\ files' = writeFileSync(files, attachmentPath(att), att.content)
    /\ UNCHANGED <<sha256Reads, pc, note, tags, dirs, noteFiles, error, delivered, pinned, normVars>>

\* The header field pushed when the note has attachments
attachmentsFields(atts) ==
  IF Len(atts) # 0
  THEN << <<"a", "t", "t", "a", "c", "h", "m", "e", "n", "t", "s", ":", " ", "[">>
          \o Join([k \in 1..Len(atts) |-> normalizeFilename(atts[k].name)], <<",", " ">>)
          \o <<"]">> >>
  ELSE <<>>

headerFields(n, tagList, atts) ==
  << <<"t", "i", "t", "l", "e", ":", " ">> \o n.title,
     <<"c", "r", "e", "a", "t", "e", "d", ":", " ", "'">> \o toISOString(n.created) \o <<"'">>,
     <<"m", "o", "d", "i", "f", "i", "e", "d", ":", " ", "'">> \o toISOString(n.modified) \o <<"'">>,
     <<"t", "a", "g", "s", ":", " ">> \o formatTags(tagList).message >>
  \o attachmentsFields(atts)

header(n, tagList, atts) ==
  <<"-", "-", "-", "\n">> \o Join(headerFields(n, tagList, atts), <<"\n">>)
  \o <<"\n", "-", "-", "-">>

noteContent(n, tagList, atts) == header(n, tagList, atts) \o <<"\n", "\n">> \o n.body

notePath(n) == pathJoin(noteDir, n.title \o <<".", "m", "d">>)

\* After the loop: formatTags throws while the header fields are built.
TagsThrow ==
  \E tagList \in TagLists :
    /\ pc = "attachments"
    /\ formatTags(tagList).thrown
    /\ tags' = tagList
    /\ error' = formatTags(tagList)
    /\ pc' = "aborted"
    /\ UNCHANGED <<sha256Reads, note, attachments, oldFile, dirs, files, noteFiles,
                   delivered, pinned, normVars>>

\* After the loop: the header is built and the note file written; dump returns.
WriteNote ==
  \E tagList \in TagLists :
    /\ pc = "attachments"
    /\ ~formatTags(tagList).thrown
    /\ tags' = tagList
    /\ noteFiles' = writeFileSync(noteFiles, notePath(note), noteContent(note, tagList, attachments))
    /\ pc' = "idle"
    /\ pinned' = pinned \cup {attachmentPath(attachments[k]) :
                              k \in {j \in 1..Len(attachments) : ~IsInvalid(attachments[j].content)}}
    /\ UNCHANGED <<sha256Reads, note, attachments, oldFile, dirs, files, error,
                   delivered, normVars>>

Next == Deliver \/ Skip \/ Conflict \/ Write \/ TagsThrow \/ WriteNote

Spec == Init /\ [][Next]_vars

----------------------------------------------------------------------------
(* The normalizer alone: a name is normalized, and the result again.      *)

NormInit ==
  /\ sha256Reads = "bytes"
  /\ pc = "idle"
  /\ note = NoNote
  /\ attachments = <<>>
  /\ oldFile = NoFile
  /\ tags = <<>>
  /\ dirs = {}
  /\ files = <<>>
  /\ noteFiles = <<>>
  /\ error = NoError
  /\ delivered = 0
  /\ pinned = {}
  /\ filename \in SeqsUpTo(Alphabet, MaxNameLen) \ {<<>>}
  /\ normalized = <<>>

Normalize ==
  /\ normalized = <<>>
  /\ normalized' = <<normalizeFilename(filename)>>
  /\ UNCHANGED <<runVars, filename>>

Renormalize ==
  /\ Len(normalized) = 1
  /\ normalized' = Append(normalized, normalizeFilename(normalized[1]))
  /\ UNCHANGED <<runVars, filename>>

NormNext == Normalize \/ Renormalize

NormSpec == NormInit /\ [][NormNext]_vars

----------------------------------------------------------------------------
(* Vocabulary of the properties.                                           *)

SentinelBytes == <<0, 1, 2, 3, 4, 5, 6, 7, 8, 9>>

UnsafeChars == {"[", "]", "(", ")", ","}

PercentCode(ch) ==
  CASE ch = "[" -> <<"%", "5", "b">>
    [] ch = "]" -> <<"%", "5", "d">>
    [] ch = "(" -> <<"%", "2", "8">>
    [] ch = ")" -> <<"%", "2", "9">>
    [] ch = "," -> <<"%", "2", "c">>
    [] OTHER -> <<ch>>

RECURSIVE PercentEncoded(_)
\* Every character of the name, each unsafe one by its percent code
PercentEncoded(name) ==
  IF name = <<>> THEN <<>> ELSE PercentCode(Head(name)) \o PercentEncoded(Tail(name))

HasUnsafeChar(name) == \E k \in 1..Len(name) : name[k] \in UnsafeChars

HasComma(str) == \E k \in 1..Len(str) : str[k] = ","

StartsWith(str, prefix) ==
  Len(str) >= Len(prefix) /\ SubSeq(str, 1, Len(prefix)) = prefix

Contains(str, part) ==
  \E k \in 1..(Len(str) - Len(part) + 1) : SubSeq(str, k, k + Len(part) - 1) = part

RECURSIVE SplitOn(_, _)
\* The pieces of str between the occurrences of the character ch
SplitOn(str, ch) ==
  IF \A k \in 1..Len(str) : str[k] # ch THEN <<str>>
  ELSE LET k == CHOOSE j \in 1..Len(str) : str[j] = ch /\ \A m \in 1..(j - 1) : str[m] # ch
       IN  <<SubSeq(str, 1, k - 1)>> \o SplitOn(SubSeq(str, k + 1, Len(str)), ch)

Lines(content) == SplitOn(content, "\n")

RECURSIVE CommaList(_)
\* The strings in order, ', ' between two of them
CommaList(strs) ==
  IF Len(strs) = 0 THEN <<>>
  ELSE IF Len(strs) = 1 THEN strs[1]
  ELSE CommaList(SubSeq(strs, 1, Len(strs) - 1)) \o <<",", " ">> \o strs[Len(strs)]

\* The items of a line 'key: [a, b, c]' after its key
ListedIn(line, key) ==
  LET inner == SubSeq(line, Len(key) + 2, Len(line) - 1)
      parts == SplitOn(inner, ",")
  IN  IF inner = <<>> THEN <<>>
      ELSE [k \in 1..Len(parts) |-> IF k = 1 THEN parts[k] ELSE Tail(parts[k])]

TagsKey == <<"t", "a", "g", "s", ":", " ">>

AttachmentsKey == <<"a", "t", "t", "a", "c", "h", "m", "e", "n", "t", "s", ":", " ">>

Rule == <<"-", "-", "-">>

IsConflictError(e) ==
  e.thrown /\ StartsWith(e.message, <<"A", "t", "t", "a", "c", "h", "m", "e", "n", "t", " ", "a", "t", " ", "p", "a", "t", "h">>)

IsTagError(e) ==
  e.thrown /\ StartsWith(e.message, <<"I", "n", "v", "a", "l", "i", "d", " ", "t", "a", "g">>)

\* This step is one iteration of the attachment loop, on the attachment Taken
Materializes == pc = "attachments" /\ Len(attachments') = Len(attachments) + 1

Taken == attachments'[Len(attachments')]

TakenPath == pathJoin(attachDir, normalizeFilename(Taken.name))

\* This step is what dump does after the loop
BuildsHeader == pc = "attachments" /\ attachments' = attachments /\ pc' # "attachments"

\* This step writes the note file
WritesNote == pc = "attachments" /\ pc' = "idle"

InLoop == pc = "attachments" /\ Len(attachments) > 0 /\ ~error.thrown

----------------------------------------------------------------------------
(* Properties.                                                             *)

\* C1: a file of the attachments directory keeps the content first written
\* to its path: no step of the run replaces it by different content or
\* removes it (two attachments of differing content on one path abort the run).
FirstContentKept ==
  [][\A p \in DOMAIN files : p \in DOMAIN files' /\ files'[p] = files[p]]_vars

\* C2: an iteration on an attachment whose content is the 10-byte sentinel
\* leaves both directories as they were, throws nothing and stays in the
\* loop; an iteration on any other content either throws or leaves the
\* content in the file at the attachment's path.
SentinelIsSkipped ==
  [][Materializes =>
       IF Taken.content = SentinelBytes
       THEN /\ files' = files
            /\ noteFiles' = noteFiles
            /\ error' = NoError
            /\ pc' = "attachments"
       ELSE \/ error'.thrown
            \/ (TakenPath \in DOMAIN files' /\ files'[TakenPath] = Taken.content)]_vars

\* C2 witness: a sentinel attachment was skipped over an existing file.
SkippedOverExistingFile ==
  /\ InLoop
  /\ attachment.content = SentinelBytes
  /\ attachmentPath(attachment) \in DOMAIN files

\* C3: an iteration on a non-sentinel attachment whose path holds a file of
\* different content throws an error naming the path, ends the run and leaves
\* the attachments directory as it was.
DifferentContentConflicts ==
  [][(/\ Materializes
      /\ Taken.content # SentinelBytes
      /\ TakenPath \in DOMAIN files
      /\ files[TakenPath] # Taken.content)
     => (/\ error'.thrown
         /\ Contains(error'.message, TakenPath)
         /\ pc' = "aborted"
         /\ files' = files)]_vars

\* C4: an iteration on a non-sentinel attachment whose path holds a file of
\* the same content throws nothing, stays in the loop and leaves the file
\* with that content.
IdenticalContentIsRewritten ==
  [][(/\ Materializes
      /\ Taken.content # SentinelBytes
      /\ TakenPath \in DOMAIN files
      /\ files[TakenPath] = Taken.content)
     => (/\ error' = NoError
         /\ pc' = "attachments"
         /\ files' = files)]_vars

\* C4 witness: the first attachment of a second note was written over a file
\* of the same content.
RewroteIdenticalContent ==
  /\ InLoop
  /\ delivered = 2
  /\ Len(attachments) = 1
  /\ attachment.content # SentinelBytes
  /\ oldFile.exists
  /\ oldFile.content = attachment.content
  /\ files[attachmentPath(attachment)] = attachment.content

EveryOccurrenceReplaced ==
  Len(normalized) >= 1 =>
    /\ normalized[1] = PercentEncoded(filename)
    /\ ~HasUnsafeChar(normalized[1])

\* C7: normalizing a normalized name changes nothing.
NormalizeIdempotent ==
  Len(normalized) = 2 => normalized[2] = normalized[1]

\* C8: when a tag holds a comma, building the header throws the tag error,
\* the run ends and the notes directory is as it was, then and ever after;
\* when none does, nothing is thrown and the tags line of the written note
\* is 'tags: [' the tags in order joined by ', ' ']'.
TagCommaAborts ==
  [][/\ BuildsHeader =>
          IF \E k \in 1..Len(tags') : HasComma(tags'[k])
          THEN /\ IsTagError(error')
               /\ pc' = "aborted"
               /\ noteFiles' = noteFiles
          ELSE /\ error' = NoError
               /\ notePath(note) \in DOMAIN noteFiles'
               /\ Lines(noteFiles'[notePath(note)])[5]
                    = TagsKey \o <<"[">> \o CommaList(tags') \o <<"]">>
     /\ IsTagError(error) => (noteFiles' = noteFiles /\ error' = error)]_vars

\* C8 witness: header building failed on a tag with a comma while the note
\* file of an earlier note of the same title was on disk.
TagErrorKeptNoteFile ==
  /\ IsTagError(error)
  /\ pc = "aborted"
  /\ \E k \in 1..Len(tags) : HasComma(tags[k])
  /\ notePath(note) \in DOMAIN noteFiles

\* C9: the written header has an attachments line exactly when the note has
\* attachments; the line lists the percent-encoded names of all attachments
\* in order, and without attachments the tags line is followed by '---'.
HeaderListsNormalizedNames ==
  [][WritesNote =>
       LET lines == Lines(noteFiles'[notePath(note)])
       IN  IF Len(attachments) = 0
           THEN /\ lines[6] = Rule
                /\ \A k \in 1..Len(lines) : ~StartsWith(lines[k], AttachmentsKey)
           ELSE /\ lines[6] = AttachmentsKey \o <<"[">>
                                \o CommaList([k \in 1..Len(attachments) |->
                                                PercentEncoded(attachments[k].name)])
                                \o <<"]">>
                /\ lines[7] = Rule]_vars

\* C10: when a note file is written, every non-sentinel attachment of the
\* note is the content of the file at attachments/<the name its header lists
\* for it>, and no later step changes or removes a file of the attachments
\* directory.
HeaderReferencesValid ==
  [][/\ WritesNote =>
          \A k \in 1..Len(attachments) :
            attachments[k].content # SentinelBytes =>
              LET listed == ListedIn(Lines(noteFiles'[notePath(note)])[6], AttachmentsKey)[k]
                  path == pathJoin(attachDir, listed)
              IN  path \in DOMAIN files' /\ files'[path] = attachments[k].content
     /\ \A p \in pinned : p \in DOMAIN files' /\ files'[p] = files[p]]_vars

====
